---- MODULE Spec2Model ----
(***************************************************************************)
(* A model of the ETH futures bot: the risk gate (risk.py), the signal     *)
(* evaluator (strategy.py) and the decision loop (bot.py, main).           *)
(*                                                                         *)
(* Numbers.  The program computes with Python floats.  The model computes  *)
(* with exact integers: money and prices are whole USDT, quantities are    *)
(* thousandths of an ETH, and every fractional configuration value is a    *)
(* numerator/denominator pair, so that a comparison such as                *)
(*     (day_start_equity - equity) / day_start_equity < 0.10               *)
(* is decided by cross-multiplication.  A float that is "not a number"     *)
(* (NaN) or a Python None is the empty set, a defined value v is {v}; an   *)
(* ordered comparison with a missing operand is then false, as it is for   *)
(* NaN in Python.                                                          *)
(***************************************************************************)
EXTENDS Integers, Sequences, FiniteSets, TLC

VARIABLES
    pc,             \* position of main(): start, account, market, decide, sleep, crashed
    today,          \* the UTC calendar date the clock shows (get_utc_date_str)
    risk_state,     \* main's risk_state: {} before startup, else {the RiskState object}
    equity,         \* main's equity (set: empty until assigned in this tick)
    wallet_balance, \* main's wallet_balance
    allowed,        \* main's allowed
    pos_info,       \* main's pos_info: {} is None
    mark_price,     \* main's mark_price
    kl,             \* the three kline series fetched in this tick
    atr_15,         \* main's atr_15: {} is None
    signal,         \* result of evaluate_strategy in this tick
    decision,       \* what the tick decided
    orders,         \* the create_market_order calls made in this tick, in order
    accepted,       \* how many of them returned normally (the exchange took the order)
    exc,            \* the exception the tick's try block ended with ("none" if none)
    tick_date,      \* the date maybe_reset_day read in this tick
    dd_hit,         \* history: dates on which a tick observed the drawdown limit reached
    call            \* a single call of a pure function: its arguments and its result

vars == <<pc, today, risk_state, equity, wallet_balance, allowed, pos_info,
          mark_price, kl, atr_15, signal, decision, orders, accepted, exc, tick_date,
          dd_hit, call>>

(***************************************************************************)
(* Configuration (config.py) and literals of the code.                     *)
(***************************************************************************)
SYMBOL == "ETHUSDT"
\* MAX_DAILY_DRAWDOWN_PCT = 0.10, imported by risk.py as DAILY_DRAWDOWN_LIMIT
DAILY_DRAWDOWN_LIMIT_NUM == 1
DAILY_DRAWDOWN_LIMIT_DEN == 10
\* POSITION_SIZE_PCT = 0.10, imported by risk.py as TRADE_BALANCE_FRACTION
TRADE_BALANCE_FRACTION_NUM == 1
TRADE_BALANCE_FRACTION_DEN == 10
\* f"{qty:.3f}": three decimals, i.e. thousandths
QTY_SCALE == 1000
ATR_PERIOD == 14
\* ATR_SL_MULTIPLIER = 1.5
ATR_SL_MULTIPLIER_NUM == 3
ATR_SL_MULTIPLIER_DEN == 2
\* ATR_TP_MULTIPLIER = 3.0
ATR_TP_MULTIPLIER == 3
\* strategy.py: len(df) < 60
MIN_CANDLES == 60
ADX_THRESHOLD_TREND == 20
RSI_OVERSOLD == 30
RSI_OVERBOUGHT == 70
RSI_CROSS_UP == 45
RSI_CROSS_DOWN == 55
\* MIN_VOLUME_FACTOR_TREND = 0.8
MIN_VOLUME_FACTOR_TREND_NUM == 4
MIN_VOLUME_FACTOR_TREND_DEN == 5
\* MIN_VOLUME_FACTOR_RANGE = 0.5
MIN_VOLUME_FACTOR_RANGE_NUM == 1
MIN_VOLUME_FACTOR_RANGE_DEN == 2

(***************************************************************************)
(* Bounds of the model.                                                    *)
(***************************************************************************)
MaxDay == 2         \* calendar dates 1..MaxDay
MaxEquity == 10     \* account equity: 0 and the three values up to MaxEquity
MaxQty == 1         \* positionAmt in -MaxQty..MaxQty (thousandths of an ETH)

Dates == 1..MaxDay
Equities == {0} \cup ((MaxEquity - 2)..MaxEquity)

(***************************************************************************)
(* Optional / NaN-able values.                                             *)
(***************************************************************************)
None == {}
Some(v) == {v}
The(s) == CHOOSE v \in s : TRUE
Lt(a, b) == \E x \in a, y \in b : x < y
Le(a, b) == \E x \in a, y \in b : x <= y

(***************************************************************************)
(* risk.py                                                                 *)
(***************************************************************************)
RiskState(day_start_equity, day_start_date) ==
    [day_start_equity |-> day_start_equity, day_start_date |-> day_start_date]

\* The clock formatted "%Y-%m-%d": two dates give the same string exactly when
\* they are the same calendar date, so the date itself stands for the string.
get_utc_date_str(clock) == clock

init_risk_state(current_equity, clock) ==
    RiskState(current_equity, get_utc_date_str(clock))

\* In-place variant: overwrites the object the caller passed.
maybe_reset_day_inplace(h, state, current_equity, clock) ==
    LET today_str == get_utc_date_str(clock) IN
    IF today_str # h[state].day_start_date
    THEN [heap |-> [h EXCEPT ![state] = RiskState(current_equity, today_str)],
          ret  |-> state]
    ELSE [heap |-> h, ret |-> state]

\* Objects have identity: h is the heap (a sequence of RiskState objects), state a
\* reference into it. A fresh RiskState is a new object appended to the heap, and
\* the result is the heap after the call and the reference returned.
maybe_reset_day(h, state, current_equity, clock) ==
    LET today_str == get_utc_date_str(clock) IN
    IF today_str # h[state].day_start_date
    THEN [heap |-> Append(h, RiskState(current_equity, today_str)),
          ret  |-> Len(h) + 1]
    ELSE [heap |-> h, ret |-> state]

\* n/d < p/q for q > 0 and d # 0, by cross-multiplication.
LtFrac(n, d, p, q) == IF d > 0 THEN n * q < p * d ELSE n * q > p * d
LeFrac(n, d, p, q) == IF d > 0 THEN n * q <= p * d ELSE n * q >= p * d

can_open_new_trade_le(state, current_equity) ==
    IF state.day_start_equity = 0
    THEN [exc |-> "ZeroDivisionError", ret |-> FALSE]
    ELSE [exc |-> "none",
          ret |-> LeFrac(state.day_start_equity - current_equity, state.day_start_equity,
                         DAILY_DRAWDOWN_LIMIT_NUM, DAILY_DRAWDOWN_LIMIT_DEN)]

\* loss_pct = (day_start_equity - current_equity) / day_start_equity is a Python
\* float division: a zero divisor raises ZeroDivisionError.
can_open_new_trade(state, current_equity) ==
    IF state.day_start_equity = 0
    THEN [exc |-> "ZeroDivisionError", ret |-> FALSE]
    ELSE [exc |-> "none",
          ret |-> LtFrac(state.day_start_equity - current_equity, state.day_start_equity,
                         DAILY_DRAWDOWN_LIMIT_NUM, DAILY_DRAWDOWN_LIMIT_DEN)]

\* float(f"{qty:.3f}") rounds qty = n/d to the nearest thousandth. The result is
\* the set of values the call can return: one value, except when qty lies exactly
\* halfway between two thousandths, where the binary float nearest to qty falls
\* on either side and the format follows it.
RoundToScale(n, d) ==
    LET q == (n * QTY_SCALE) \div d
        r == (n * QTY_SCALE) % d
    IN  IF 2 * r < d THEN {q}
        ELSE IF 2 * r > d THEN {q + 1}
        ELSE {q, q + 1}

\* Returns the quantity in thousandths of an ETH.
compute_position_size(wallet_balance_, mark_price_) ==
    IF wallet_balance_ * TRADE_BALANCE_FRACTION_NUM <= 0 \/ mark_price_ <= 0
    THEN {0}
    ELSE RoundToScale(wallet_balance_ * TRADE_BALANCE_FRACTION_NUM,
                      TRADE_BALANCE_FRACTION_DEN * mark_price_)

(***************************************************************************)
(* strategy.py                                                             *)
(*                                                                         *)
(* A kline series is represented by its length n and by the values the     *)
(* indicator library yields on it: for the candles before the last one     *)
(* (the closed candles) the last-row and previous-row indicator values     *)
(* evaluate_strategy reads, and the last ATR value both of the whole series *)
(* (atr) and of the series without its last candle (atr_closed).  The last *)
(* candle of a fetched series is the one still forming, so the two differ  *)
(* whenever that candle's range moves the average.                         *)
(***************************************************************************)
\* df.iloc[:-1]: the length of the frame without its last row.
DropLast(n) == IF n = 0 THEN 0 ELSE n - 1

Signal(side, reason) == [side |-> side, reason |-> reason]

\* Python truthiness of a float: zero is false, everything else (NaN too) is true.
Truthy(x) == x # {0}

NotEnoughCandles_15_only(len15, len30, len1h) == len15 < MIN_CANDLES

\* len(df15) < 60 or len(df30) < 60 or len(df1h) < 60
NotEnoughCandles(len15, len30, len1h) ==
    len15 < MIN_CANDLES \/ len30 < MIN_CANDLES \/ len1h < MIN_CANDLES

big_trend_of_at_threshold(klines_1h) ==
    IF klines_1h.ema50 > klines_1h.ema100 /\ Le({ADX_THRESHOLD_TREND}, klines_1h.adx)
    THEN "UP"
    ELSE IF klines_1h.ema50 < klines_1h.ema100 /\ Le({ADX_THRESHOLD_TREND}, klines_1h.adx)
    THEN "DOWN"
    ELSE "RANGE"

\* Lines 74-79, on the last row of the 1h frame.
big_trend_of(klines_1h) ==
    IF klines_1h.ema50 > klines_1h.ema100 /\ Lt({ADX_THRESHOLD_TREND}, klines_1h.adx)
    THEN "UP"
    ELSE IF klines_1h.ema50 < klines_1h.ema100 /\ Lt({ADX_THRESHOLD_TREND}, klines_1h.adx)
    THEN "DOWN"
    ELSE "RANGE"

mid_trend_of_flat_is_up(klines_30m) ==
    IF klines_30m.ema50 >= klines_30m.ema100 THEN "UP" ELSE "DOWN"

\* Lines 95-103, on the last row of the 30m frame.
mid_trend_of(klines_30m) ==
    IF klines_30m.ema50 > klines_30m.ema100 THEN "UP"
    ELSE IF klines_30m.ema50 < klines_30m.ema100 THEN "DOWN"
    ELSE "FLAT"

VolAbove_or_equal(vol_last, num, den, vol_ma20) ==
    \E m \in vol_ma20 : den * vol_last >= num * m

\* vol_last > factor * vol_ma20, with factor = num/den
VolAbove(vol_last, num, den, vol_ma20) == \E m \in vol_ma20 : den * vol_last > num * m

\* The conditions of the four entries (lines 145-210), from the indicator values
\* of the last two closed 15m candles and the two trends.
EntryConditions(klines_15m, big_trend, mid_trend) ==
    LET k == klines_15m
        rsi_cross_up == Lt(k.rsi_prev, {RSI_CROSS_UP}) /\ Le({RSI_CROSS_UP}, k.rsi_last)
        macd_bull == k.macd_hist_prev < 0 /\ 0 <= k.macd_hist_last
        price_above_ema50 == k.close > k.ema50
        vol_ok_trend == VolAbove(k.vol_last, MIN_VOLUME_FACTOR_TREND_NUM,
                                 MIN_VOLUME_FACTOR_TREND_DEN, k.vol_ma20)
        long_trend_ok == big_trend = "UP" /\ mid_trend = "UP"
        rsi_cross_down == Lt({RSI_CROSS_DOWN}, k.rsi_prev) /\ Le(k.rsi_last, {RSI_CROSS_DOWN})
        macd_bear == k.macd_hist_prev > 0 /\ 0 >= k.macd_hist_last
        price_below_ema50 == k.close < k.ema50
        vol_ok_trend_short == VolAbove(k.vol_last, MIN_VOLUME_FACTOR_TREND_NUM,
                                       MIN_VOLUME_FACTOR_TREND_DEN, k.vol_ma20)
        short_trend_ok == big_trend = "DOWN" /\ mid_trend = "DOWN"
        range_vol_ok == VolAbove(k.vol_last, MIN_VOLUME_FACTOR_RANGE_NUM,
                                 MIN_VOLUME_FACTOR_RANGE_DEN, k.vol_ma20)
        \* if big_trend == "RANGE" and bb_lower and bb_upper
        range_block == big_trend = "RANGE" /\ Truthy(k.bb_lower) /\ Truthy(k.bb_upper)
        touch_lower == Le({k.close}, k.bb_lower)
        rsi_rebound == Lt(k.rsi_prev, {RSI_OVERSOLD}) /\ Le({RSI_OVERSOLD}, k.rsi_last)
        touch_upper == Le(k.bb_upper, {k.close})
        rsi_rollover == Lt({RSI_OVERBOUGHT}, k.rsi_prev) /\ Le(k.rsi_last, {RSI_OVERBOUGHT})
    IN  [trend_long  |-> long_trend_ok /\ rsi_cross_up /\ macd_bull /\ price_above_ema50
                         /\ vol_ok_trend,
         trend_short |-> short_trend_ok /\ rsi_cross_down /\ macd_bear /\ price_below_ema50
                         /\ vol_ok_trend_short,
         range_long  |-> range_block /\ touch_lower /\ rsi_rebound /\ range_vol_ok,
         range_short |-> range_block /\ touch_upper /\ rsi_rollover /\ range_vol_ok]

\* What evaluate_strategy returns: exc is the exception raised ("none" for a
\* normal return), signal is {} (None) or {Signal}, expl the explanation parts
\* that are joined into the returned string; big_trend and mid_trend are the
\* locals of these names when the function leaves ("unset" before line 74).
Outcome(exc_, signal_, expl, big_trend, mid_trend) ==
    [exc |-> exc_, signal |-> signal_, expl |-> expl,
     big_trend |-> big_trend, mid_trend |-> mid_trend]

evaluate_strategy(klines_15m, klines_30m, klines_1h) ==
    LET len15 == DropLast(klines_15m.n)
        len30 == DropLast(klines_30m.n)
        len1h == DropLast(klines_1h.n)
    IN
    IF NotEnoughCandles(len15, len30, len1h)
    THEN Outcome("none", None,
                 <<"Not enough candles on one of the timeframes (need ~60 each).">>,
                 "unset", "unset")
    \* df1h.iloc[-1], df30.iloc[-1], df15.iloc[-1] and df15.iloc[-2] need the rows
    ELSE IF len1h = 0 \/ len30 = 0 \/ len15 < 2
    THEN Outcome("IndexError", None, << >>, "unset", "unset")
    ELSE
    LET big_trend == big_trend_of(klines_1h)
        mid_trend == mid_trend_of(klines_30m)
        c == EntryConditions(klines_15m, big_trend, mid_trend)
        parts == <<"1h", "30m", "15m", "Conditions">>
    IN
    IF klines_15m.vol_ma20 = {0}
    THEN Outcome("none", None, <<"15m volume MA is zero/NaN, skipping trading.">>,
                 big_trend, mid_trend)
    ELSE IF c.trend_long
    THEN Outcome("none", Some(Signal("BUY", "Trend long")),
                 Append(parts, "Decision: OPEN LONG (trend-following)"),
                 big_trend, mid_trend)
    ELSE IF c.trend_short
    THEN Outcome("none", Some(Signal("SELL", "Trend short")),
                 Append(parts, "Decision: OPEN SHORT (trend-following)"),
                 big_trend, mid_trend)
    ELSE IF c.range_long
    THEN Outcome("none", Some(Signal("BUY", "Range long at lower Bollinger")),
                 Append(parts, "Decision: OPEN LONG (range)"), big_trend, mid_trend)
    ELSE IF c.range_short
    THEN Outcome("none", Some(Signal("SELL", "Range short at upper Bollinger")),
                 Append(parts, "Decision: OPEN SHORT (range)"), big_trend, mid_trend)
    ELSE IF big_trend \in {"UP", "DOWN"}
    THEN Outcome("none", None, Append(parts, "Decision: NO TRADE (trend mode)"),
                 big_trend, mid_trend)
    ELSE Outcome("none", None, Append(parts, "Decision: NO TRADE (range mode)"),
                 big_trend, mid_trend)

(***************************************************************************)
(* exchange.py and the helpers of bot.py                                   *)
(***************************************************************************)
\* The params create_market_order posts: reduceOnly is sent only when reduce_only.
create_market_order(symbol, side, quantity, reduce_only) ==
    [symbol |-> symbol, side |-> side, type |-> "MARKET", quantity |-> quantity,
     reduceOnly |-> reduce_only]

\* The loop over acct["assets"] stops at the first USDT entry: its index, or 0.
FirstUsdtAsset(assets) ==
    IF \E i \in 1..Len(assets) : assets[i].asset = "USDT"
    THEN CHOOSE i \in 1..Len(assets) :
           /\ assets[i].asset = "USDT"
           /\ \A j \in 1..(i - 1) : assets[j].asset # "USDT"
    ELSE 0

\* acct.totalWalletBalance is {} when the key is absent (the default 0.0 applies).
get_wallet_equity_and_balance(acct) ==
    LET i == FirstUsdtAsset(acct.assets)
    IN  [equity |-> IF acct.totalWalletBalance = {} THEN 0 ELSE The(acct.totalWalletBalance),
         wallet_balance |-> IF i = 0 THEN 0 ELSE acct.assets[i].walletBalance]

\* p["symbol"] == SYMBOL and float(p["positionAmt"]) != 0
IsOpenPosition(p) == p.symbol = SYMBOL /\ p.positionAmt # 0

\* The loop over the positions returns at the first open one: its index, or 0.
FirstOpenPosition(positions) ==
    IF \E i \in 1..Len(positions) : IsOpenPosition(positions[i])
    THEN CHOOSE i \in 1..Len(positions) :
           /\ IsOpenPosition(positions[i])
           /\ \A j \in 1..(i - 1) : ~IsOpenPosition(positions[j])
    ELSE 0

get_open_position_info(positions) ==
    LET i == FirstOpenPosition(positions)
    IN  IF i = 0 THEN None
        ELSE LET qty == positions[i].positionAmt IN
             Some([qty |-> IF qty < 0 THEN -qty ELSE qty,
                   entry_price |-> positions[i].entryPrice,
                   side |-> IF qty > 0 THEN "BUY" ELSE "SELL"])

compute_atr_from_15m_late(klines_15m) ==
    IF klines_15m.n < MIN_CANDLES + ATR_PERIOD + 2 THEN None ELSE Some(klines_15m.atr)

\* atr(df15) is taken over the whole fetched series, last row included.
compute_atr_from_15m(klines_15m) ==
    IF klines_15m.n < ATR_PERIOD + 2 THEN None ELSE Some(klines_15m.atr)

\* A quotient of two floats, kept exact as numerator over a positive denominator.
Frac(num, den) == [num |-> num, den |-> den]

compute_pnl_long_only(entry_price, exit_price, qty, side) ==
    IF qty <= 0 \/ entry_price <= 0
    THEN [pnl |-> 0, pnl_pct |-> Frac(0, 1), divided |-> FALSE]
    ELSE LET pnl      == (exit_price - entry_price) * qty
             notional == entry_price * qty
         IN  IF notional > 0
             THEN [pnl |-> pnl, pnl_pct |-> Frac(pnl * 100, notional), divided |-> TRUE]
             ELSE [pnl |-> pnl, pnl_pct |-> Frac(0, 1), divided |-> FALSE]

\* Returns the pair (pnl, pnl_pct); divided tells whether pnl / notional was
\* evaluated.
compute_pnl(entry_price, exit_price, qty, side) ==
    IF qty <= 0 \/ entry_price <= 0
    THEN [pnl |-> 0, pnl_pct |-> Frac(0, 1), divided |-> FALSE]
    ELSE LET pnl      == IF side = "BUY"
                         THEN (exit_price - entry_price) * qty
                         ELSE (entry_price - exit_price) * qty
             notional == entry_price * qty
         IN  IF notional > 0
             THEN [pnl |-> pnl, pnl_pct |-> Frac(pnl * 100, notional), divided |-> TRUE]
             ELSE [pnl |-> pnl, pnl_pct |-> Frac(0, 1), divided |-> FALSE]

(***************************************************************************)
(* bot.py, main: the position-management branch                            *)
(***************************************************************************)
\* sl and tp of main, both multiplied by ATR_SL_MULTIPLIER_DEN to stay integral.
StopLevels(side, entry_price, atr) ==
    IF side = "BUY"
    THEN [sl |-> ATR_SL_MULTIPLIER_DEN * entry_price - ATR_SL_MULTIPLIER_NUM * atr,
          tp |-> ATR_SL_MULTIPLIER_DEN * (entry_price + ATR_TP_MULTIPLIER * atr)]
    ELSE [sl |-> ATR_SL_MULTIPLIER_DEN * entry_price + ATR_SL_MULTIPLIER_NUM * atr,
          tp |-> ATR_SL_MULTIPLIER_DEN * (entry_price - ATR_TP_MULTIPLIER * atr)]

ExitBranch_tp_first(side, entry_price, atr, mark) ==
    LET lv == StopLevels(side, entry_price, atr)
        m  == ATR_SL_MULTIPLIER_DEN * mark
    IN  IF side = "BUY" /\ m >= lv.tp THEN "TP_LONG"
        ELSE IF side = "BUY" /\ m <= lv.sl THEN "SL_LONG"
        ELSE IF side = "SELL" /\ m <= lv.tp THEN "TP_SHORT"
        ELSE IF side = "SELL" /\ m >= lv.sl THEN "SL_SHORT"
        ELSE "HOLD"

\* The if/elif chain of main: which branch is taken.
ExitBranch(side, entry_price, atr, mark) ==
    LET lv == StopLevels(side, entry_price, atr)
        m  == ATR_SL_MULTIPLIER_DEN * mark
    IN  IF side = "BUY" /\ m <= lv.sl THEN "SL_LONG"
        ELSE IF side = "BUY" /\ m >= lv.tp THEN "TP_LONG"
        ELSE IF side = "SELL" /\ m >= lv.sl THEN "SL_SHORT"
        ELSE IF side = "SELL" /\ m <= lv.tp THEN "TP_SHORT"
        ELSE "HOLD"

ExitOrders_same_side(branch, qty) ==
    IF branch \in {"SL_LONG", "TP_LONG"}
    THEN <<create_market_order(SYMBOL, "BUY", qty, TRUE)>>
    ELSE IF branch \in {"SL_SHORT", "TP_SHORT"}
    THEN <<create_market_order(SYMBOL, "SELL", qty, TRUE)>>
    ELSE << >>

\* The create_market_order call each branch makes.
ExitOrders(branch, qty) ==
    IF branch \in {"SL_LONG", "TP_LONG"}
    THEN <<create_market_order(SYMBOL, "SELL", qty, TRUE)>>
    ELSE IF branch \in {"SL_SHORT", "TP_SHORT"}
    THEN <<create_market_order(SYMBOL, "BUY", qty, TRUE)>>
    ELSE << >>

\* if pos_info and atr_15 is not None
InPositionBranch(pos, atr) == pos # None /\ atr # None

ShouldEnter_no_gate(sig, allowed_) == sig # None

\* if signal and allowed
ShouldEnter(sig, allowed_) == sig # None /\ allowed_ = {TRUE}

(***************************************************************************)
(* What the collaborators can answer.                                      *)
(***************************************************************************)
Wallets == {0, 1000}
Prices == {1100, 2000}
AtrValues == {0, 300}

AccountResponses ==
    [totalWalletBalance : {{}} \cup {{e} : e \in Equities},
     assets : {<< >>} \cup {<<[asset |-> "USDT", walletBalance |-> w]>> : w \in Wallets}
              \cup {<<[asset |-> "BNB", walletBalance |-> 5],
                      [asset |-> "USDT", walletBalance |-> w]>> : w \in Wallets}]

PositionEntries ==
    [symbol : {SYMBOL}, positionAmt : (-MaxQty)..MaxQty, entryPrice : Prices]

PositionResponses ==
    {<< >>} \cup {<<p>> : p \in PositionEntries}
    \cup {<<[symbol |-> "BTCUSDT", positionAmt |-> 1, entryPrice |-> 30000], p>> :
             p \in PositionEntries}

\* 15m series: the entry-timeframe indicator values of a few market situations.
Profile15(name) ==
    CASE name = "trend_long" ->
           [rsi_prev |-> {40}, rsi_last |-> {50}, macd_hist_prev |-> -1,
            macd_hist_last |-> 1, vol_last |-> 100, vol_ma20 |-> {100},
            ema50 |-> 1900, close |-> 2000, bb_lower |-> {1800}, bb_upper |-> {2200}]
      [] name = "trend_short" ->
           [rsi_prev |-> {60}, rsi_last |-> {50}, macd_hist_prev |-> 1,
            macd_hist_last |-> -1, vol_last |-> 100, vol_ma20 |-> {100},
            ema50 |-> 1900, close |-> 1850, bb_lower |-> {1800}, bb_upper |-> {2200}]
      [] name = "range_long" ->
           [rsi_prev |-> {25}, rsi_last |-> {35}, macd_hist_prev |-> -1,
            macd_hist_last |-> -1, vol_last |-> 100, vol_ma20 |-> {100},
            ema50 |-> 1900, close |-> 1800, bb_lower |-> {1800}, bb_upper |-> {2200}]
      [] name = "range_short" ->
           [rsi_prev |-> {75}, rsi_last |-> {65}, macd_hist_prev |-> 1,
            macd_hist_last |-> 1, vol_last |-> 100, vol_ma20 |-> {100},
            ema50 |-> 1900, close |-> 2200, bb_lower |-> {1800}, bb_upper |-> {2200}]
      [] OTHER ->
           [rsi_prev |-> {50}, rsi_last |-> {50}, macd_hist_prev |-> 1,
            macd_hist_last |-> 1, vol_last |-> 100, vol_ma20 |-> {100},
            ema50 |-> 1900, close |-> 1900, bb_lower |-> {1800}, bb_upper |-> {2200}]

Series15(n, atr, atr_closed, name) ==
    [n |-> n, atr |-> atr, atr_closed |-> atr_closed] @@ Profile15(name)
Series30(n, ema50, ema100) == [n |-> n, ema50 |-> ema50, ema100 |-> ema100]
Series1h(n, ema50, ema100, adx) == [n |-> n, ema50 |-> ema50, ema100 |-> ema100, adx |-> adx]

\* Series too short for any indicator carry no indicator profile of interest.
LoopKlines15 ==
    {Series15(n, 0, 0, "quiet") : n \in {0, ATR_PERIOD + 1}}
    \cup {Series15(n, a, c, "quiet") :
            n \in {ATR_PERIOD + 2, MIN_CANDLES}, a \in AtrValues, c \in AtrValues}
    \cup {Series15(MIN_CANDLES + 1, a, a, name) :
            a \in AtrValues, name \in {"trend_long", "trend_short", "quiet"}}
LoopKlines30 ==
    {Series30(MIN_CANDLES, 2, 1), Series30(MIN_CANDLES + 1, 2, 1), Series30(MIN_CANDLES + 1, 1, 2)}
LoopKlines1h ==
    {Series1h(MIN_CANDLES, 2, 1, {25}), Series1h(MIN_CANDLES + 1, 2, 1, {25}),
     Series1h(MIN_CANDLES + 1, 1, 2, {25})}

(***************************************************************************)
(* bot.py, main: the decision loop                                         *)
(*                                                                         *)
(* One iteration of "while True" is three steps, one per group of calls to *)
(* the collaborators, followed by the sleep.  The locals of main that a    *)
(* tick assigns are always assigned before they are read in that tick, so  *)
(* the sleep step forgets them.                                            *)
(***************************************************************************)
NoCall == [fn |-> "none"]

TickLocalsCleared ==
    /\ equity' = None
    /\ wallet_balance' = None
    /\ allowed' = None
    /\ pos_info' = None
    /\ mark_price' = None
    /\ kl' = None
    /\ atr_15' = None
    /\ signal' = None
    /\ decision' = "none"
    /\ orders' = << >>
    /\ accepted' = 0
    /\ exc' = "none"
    /\ tick_date' = None

LoopInit ==
    /\ pc = "start"
    /\ today = 1
    /\ risk_state = None
    /\ equity = None
    /\ wallet_balance = None
    /\ allowed = None
    /\ pos_info = None
    /\ mark_price = None
    /\ kl = None
    /\ atr_15 = None
    /\ signal = None
    /\ decision = "none"
    /\ orders = << >>
    /\ accepted = 0
    /\ exc = "none"
    /\ tick_date = None
    /\ dd_hit = FALSE

Init == LoopInit /\ call = NoCall

\* History only: the loss observed in a tick has reached the drawdown limit.
DrawdownReached(state, current_equity) ==
    /\ state.day_start_equity > 0
    /\ (state.day_start_equity - current_equity) * DAILY_DRAWDOWN_LIMIT_DEN
         >= DAILY_DRAWDOWN_LIMIT_NUM * state.day_start_equity

\* main up to the loop: init_client, the first account query, init_risk_state.
\* An exception here leaves main (the top-level guard logs it and the process ends).
Startup ==
    /\ pc = "start"
    /\ \/ /\ pc' = "crashed"
          /\ UNCHANGED <<risk_state, equity, wallet_balance>>
       \/ \E acct \in AccountResponses :
            LET eb == get_wallet_equity_and_balance(acct) IN
            /\ equity' = Some(eb.equity)
            /\ wallet_balance' = Some(eb.wallet_balance)
            /\ risk_state' = Some(init_risk_state(eb.equity, today))
            /\ pc' = "account"
    /\ UNCHANGED <<today, allowed, pos_info, mark_price, kl, atr_15, signal, decision,
                   orders, accepted, exc, tick_date, dd_hit, call>>

\* Lines 155-157: the account query, maybe_reset_day, can_open_new_trade.
TickAccount ==
    /\ pc = "account"
    /\ \/ /\ exc' = "Exception"          \* get_account raises
          /\ pc' = "sleep"
          /\ UNCHANGED <<risk_state, equity, wallet_balance, allowed, tick_date, dd_hit>>
       \/ \E acct \in AccountResponses :
            LET eb == get_wallet_equity_and_balance(acct)
                r  == maybe_reset_day(<<The(risk_state)>>, 1, eb.equity, today)
                st == r.heap[r.ret]
                c  == can_open_new_trade(st, eb.equity)
            IN
            /\ equity' = Some(eb.equity)
            /\ wallet_balance' = Some(eb.wallet_balance)
            /\ risk_state' = Some(st)
            /\ tick_date' = Some(get_utc_date_str(today))
            /\ dd_hit' = (dd_hit \/ DrawdownReached(st, eb.equity))
            /\ IF c.exc # "none"
               THEN /\ exc' = c.exc
                    /\ allowed' = allowed
                    /\ pc' = "sleep"
               ELSE /\ exc' = exc
                    /\ allowed' = Some(c.ret)
                    /\ pc' = "market"
    /\ UNCHANGED <<today, pos_info, mark_price, kl, atr_15, signal, decision, orders,
                   accepted, call>>

\* Lines 159-167: the position query, the ticker, the three kline queries, the ATR.
TickMarket ==
    /\ pc = "market"
    /\ \/ /\ exc' = "Exception"          \* one of the queries raises
          /\ pc' = "sleep"
          /\ UNCHANGED <<pos_info, mark_price, kl, atr_15>>
       \/ \E positions \in PositionResponses, price \in Prices,
             kl_15 \in LoopKlines15, kl_30 \in LoopKlines30, kl_1h \in LoopKlines1h :
            /\ pos_info' = get_open_position_info(positions)
            /\ mark_price' = Some(price)
            /\ kl' = Some([kl_15 |-> kl_15, kl_30 |-> kl_30, kl_1h |-> kl_1h])
            /\ atr_15' = compute_atr_from_15m(kl_15)
            /\ exc' = exc
            /\ pc' = "decide"
    /\ UNCHANGED <<today, risk_state, equity, wallet_balance, allowed, signal, decision,
                   orders, accepted, tick_date, dd_hit, call>>

\* Lines 170-259: an open position and an ATR.
ManagePosition ==
    LET pos    == The(pos_info)
        branch == ExitBranch(pos.side, pos.entry_price, The(atr_15), The(mark_price))
    IN
    /\ decision' = branch
    /\ orders' = ExitOrders(branch, pos.qty)
    /\ signal' = signal
    \* create_market_order returns, or raises
    /\ IF branch = "HOLD"
       THEN exc' = exc /\ accepted' = 0
       ELSE \E ok \in BOOLEAN :
              /\ exc' = (IF ok THEN exc ELSE "Exception")
              /\ accepted' = (IF ok THEN 1 ELSE 0)

\* How lines 271-274 can end: create_market_order raises; it returns and
\* get_open_position_info raises; both return.
EntryOutcomes == {"order raises", "position query raises", "entered"}

\* Lines 261-296: no position, or no ATR.
ConsiderEntry ==
    LET k   == The(kl)
        res == evaluate_strategy(k.kl_15, k.kl_30, k.kl_1h)
    IN
    /\ signal' = res.signal
    /\ IF res.exc # "none"
       THEN /\ orders' = << >>
            /\ accepted' = 0
            /\ decision' = "none"
            /\ exc' = res.exc
       ELSE
       IF ShouldEnter(res.signal, allowed)
       THEN \E qty \in compute_position_size(The(wallet_balance), The(mark_price)) :
              IF qty > 0
              THEN /\ orders' = <<create_market_order(SYMBOL, The(res.signal).side, qty, FALSE)>>
                   /\ decision' = "ENTRY"
                   \* line 271 raises, or it returns and the position query of
                   \* line 274 raises, or both return
                   /\ \E outcome \in EntryOutcomes :
                        /\ exc' = (IF outcome = "entered" THEN exc ELSE "Exception")
                        /\ accepted' = (IF outcome = "order raises" THEN 0 ELSE 1)
              ELSE /\ orders' = << >>
                   /\ accepted' = 0
                   /\ decision' = "ZERO_QTY"
                   /\ exc' = exc
       ELSE /\ orders' = << >>
            /\ accepted' = 0
            /\ decision' = IF res.signal # None THEN "BLOCKED" ELSE "NO_SIGNAL"
            /\ exc' = exc

TickDecide ==
    /\ pc = "decide"
    /\ IF InPositionBranch(pos_info, atr_15) THEN ManagePosition ELSE ConsiderEntry
    /\ pc' = "sleep"
    /\ UNCHANGED <<today, risk_state, equity, wallet_balance, allowed, pos_info,
                   mark_price, kl, atr_15, tick_date, dd_hit, call>>

Sleep_reraise ==
    /\ pc = "sleep"
    /\ IF exc # "none"
       THEN /\ pc' = "crashed"
            /\ UNCHANGED <<today, equity, wallet_balance, allowed, pos_info, mark_price,
                           kl, atr_15, signal, decision, orders, accepted, exc,
                           tick_date, dd_hit>>
       ELSE /\ \E d \in {today, today + 1} :
                 /\ d \in Dates
                 /\ today' = d
                 /\ dd_hit' = (dd_hit /\ d = today)
            /\ TickLocalsCleared
            /\ pc' = "account"
    /\ UNCHANGED <<risk_state, call>>

\* Lines 298-307: the except clause has logged the exception, if any; the loop
\* sleeps and the next iteration starts. The date may change while it sleeps.
Sleep ==
    /\ pc = "sleep"
    /\ \E d \in {today, today + 1} :
         /\ d \in Dates
         /\ today' = d
         /\ dd_hit' = (dd_hit /\ d = today)
    /\ TickLocalsCleared
    /\ pc' = "account"
    /\ UNCHANGED <<risk_state, call>>

Next == Startup \/ TickAccount \/ TickMarket \/ TickDecide \/ Sleep

Spec == Init /\ [][Next]_vars

\* time.sleep(sleep_for) returns and "while True" starts the next iteration: the
\* step from the sleep to the next tick is eventually taken.
SpecLive == Init /\ [][Next]_vars /\ WF_vars(Sleep)

(***************************************************************************)
(* Single calls of the pure functions: the arguments are drawn in the      *)
(* initial state, the one step applies the function to them.               *)
(***************************************************************************)
\* day-start equities (a negative or zero baseline included) and observed equities
PureBaselines == (-2)..(2 * MaxEquity)
PureEquities == 0..(2 * MaxEquity)
PureWallets == {-1, 0, 1, 1000}
PureMarks == {-1, 0, 1100, 2000}
PureLens == {0, 1, 2, MIN_CANDLES, MIN_CANDLES + 1, 200}
RiskStates == {RiskState(e, d) : e \in Equities, d \in Dates}
Heaps == {<<a>> : a \in RiskStates} \cup {<<a, b>> : a \in RiskStates, b \in RiskStates}

PureKlines15 ==
    {Series15(n, 0, 0, name) : n \in PureLens,
        name \in {"trend_long", "trend_short", "range_long", "range_short", "quiet"}}
PureKlines30 ==
    {Series30(n, f, 2) : n \in PureLens, f \in {1, 2, 3}}
PureKlines1h ==
    {Series1h(n, f, 2, adx) : n \in PureLens, f \in {1, 2, 3},
        adx \in {{}, {ADX_THRESHOLD_TREND}, {ADX_THRESHOLD_TREND + 1}}}

\* Full-length series (200 candles, the limit main fetches) over a grid of
\* indicator values around every threshold evaluate_strategy compares with.
\* RSI is undefined on a flat window (0/0); the rolling means are undefined only
\* if a fetched value is.  The 20-candle volume mean includes the last closed
\* candle, so it is zero only when that candle's volume is.
Rsi(prev, last) == [rsi_prev |-> prev, rsi_last |-> last]
RsiPairs ==
    {Rsi({40}, {50}), Rsi({60}, {50}), Rsi({25}, {35}), Rsi({75}, {65}), Rsi({50}, {50}),
     Rsi({}, {50}), Rsi({RSI_OVERSOLD - 1}, {RSI_OVERSOLD}),
     Rsi({RSI_OVERBOUGHT + 1}, {RSI_OVERBOUGHT}), Rsi({25}, {50}), Rsi({75}, {50})}
MacdPairs ==
    {[macd_hist_prev |-> -1, macd_hist_last |-> 1], [macd_hist_prev |-> 1, macd_hist_last |-> -1],
     [macd_hist_prev |-> 1, macd_hist_last |-> 1]}
Volume(last, ma20) == [vol_last |-> last, vol_ma20 |-> ma20]
VolumePairs ==
    {Volume(100, {100}), Volume(80, {100}), Volume(60, {100}), Volume(50, {100}),
     Volume(40, {100}), Volume(0, {0}), Volume(100, {})}
PricePoint(close, ema50, bb_lower, bb_upper) ==
    [close |-> close, ema50 |-> ema50, bb_lower |-> bb_lower, bb_upper |-> bb_upper]
PricePoints ==
    {PricePoint(2000, 1900, {1800}, {2200}), PricePoint(1850, 1900, {1800}, {2200}),
     PricePoint(2000, 1900, {1700}, {2000}), PricePoint(1850, 1900, {1850}, {2100}),
     PricePoint(2000, 1900, {2000}, {2000}), PricePoint(2000, 1900, {0}, {1900}),
     PricePoint(1850, 1900, {}, {})}
GridKlines15 ==
    {[n |-> 200, atr |-> 0, atr_closed |-> 0] @@ r @@ m @@ v @@ x :
        r \in RsiPairs, m \in MacdPairs, v \in VolumePairs, x \in PricePoints}
GridKlines30 == {Series30(200, f, 2) : f \in {1, 2, 3}}
GridKlines1h ==
    {Series1h(200, f, 2, adx) : f \in {1, 2, 3},
        adx \in {{}, {ADX_THRESHOLD_TREND}, {ADX_THRESHOLD_TREND + 1}}}

PnlPrices == {-1, 0, 90, 100, 110}
PnlQuantities == {-1, 0, 1, 2}

Pending(fn, args) == [fn |-> fn, args |-> args, done |-> FALSE, result |-> "pending"]

PureCalls ==
    {Pending("can_open_new_trade", [state |-> RiskState(d, 1), current_equity |-> e]) :
        d \in PureBaselines, e \in PureEquities}
    \cup {Pending("maybe_reset_day", [heap |-> h, state |-> i, current_equity |-> e, clock |-> c]) :
        h \in Heaps, i \in {1, 2}, e \in Equities, c \in Dates}
    \cup {Pending("compute_position_size", [wallet_balance |-> w, mark_price |-> m]) :
        w \in PureWallets, m \in PureMarks}
    \cup {Pending("evaluate_strategy", [klines_15m |-> a, klines_30m |-> b, klines_1h |-> c]) :
        a \in PureKlines15, b \in PureKlines30, c \in PureKlines1h}
    \cup {Pending("compute_pnl", [entry_price |-> en, exit_price |-> ex, qty |-> q, side |-> sd]) :
        en \in PnlPrices, ex \in PnlPrices, q \in PnlQuantities, sd \in {"BUY", "SELL"}}

\* evaluate_strategy on the grid of indicator values
GridCalls ==
    {Pending("evaluate_strategy", [klines_15m |-> a, klines_30m |-> b, klines_1h |-> c]) :
        a \in GridKlines15, b \in GridKlines30, c \in GridKlines1h}

InitPure == LoopInit /\ (call \in PureCalls \/ call \in GridCalls)

Return(v) == call' = [call EXCEPT !.done = TRUE, !.result = v]

Call_can_open_new_trade ==
    /\ call.fn = "can_open_new_trade" /\ ~call.done
    /\ Return(can_open_new_trade(call.args.state, call.args.current_equity))
    /\ UNCHANGED <<pc, today, risk_state, equity, wallet_balance, allowed, pos_info,
                   mark_price, kl, atr_15, signal, decision, orders, accepted, exc,
                   tick_date, dd_hit>>

Call_maybe_reset_day ==
    /\ call.fn = "maybe_reset_day" /\ ~call.done
    /\ call.args.state <= Len(call.args.heap)
    /\ Return(maybe_reset_day(call.args.heap, call.args.state,
                              call.args.current_equity, call.args.clock))
    /\ UNCHANGED <<pc, today, risk_state, equity, wallet_balance, allowed, pos_info,
                   mark_price, kl, atr_15, signal, decision, orders, accepted, exc,
                   tick_date, dd_hit>>

Call_compute_position_size ==
    /\ call.fn = "compute_position_size" /\ ~call.done
    /\ \E q \in compute_position_size(call.args.wallet_balance, call.args.mark_price) :
         Return(q)
    /\ UNCHANGED <<pc, today, risk_state, equity, wallet_balance, allowed, pos_info,
                   mark_price, kl, atr_15, signal, decision, orders, accepted, exc,
                   tick_date, dd_hit>>

Call_evaluate_strategy ==
    /\ call.fn = "evaluate_strategy" /\ ~call.done
    /\ Return(evaluate_strategy(call.args.klines_15m, call.args.klines_30m,
                                call.args.klines_1h))
    /\ UNCHANGED <<pc, today, risk_state, equity, wallet_balance, allowed, pos_info,
                   mark_price, kl, atr_15, signal, decision, orders, accepted, exc,
                   tick_date, dd_hit>>

Call_compute_pnl ==
    /\ call.fn = "compute_pnl" /\ ~call.done
    /\ Return(compute_pnl(call.args.entry_price, call.args.exit_price,
                          call.args.qty, call.args.side))
    /\ UNCHANGED <<pc, today, risk_state, equity, wallet_balance, allowed, pos_info,
                   mark_price, kl, atr_15, signal, decision, orders, accepted, exc,
                   tick_date, dd_hit>>

NextPure ==
    \/ Call_can_open_new_trade
    \/ Call_maybe_reset_day
    \/ Call_compute_position_size
    \/ Call_evaluate_strategy
    \/ Call_compute_pnl

SpecPure == InitPure /\ [][NextPure]_vars

(***************************************************************************)
(* Properties                                                              *)
(***************************************************************************)
IsEntryOrder(o) == ~o.reduceOnly
EntrySubmitted == \E i \in 1..Len(orders) : IsEntryOrder(orders[i])
Decided == pc = "sleep" /\ decision # "none"

\* C1: a tick whose position query reported an open position submits no entry
\* order (a market order without reduce_only), whether or not the ATR is
\* available, and a tick submits at most one market order in total.
C1_ManageOrEnterNeverBoth ==
    /\ pos_info # None => ~EntrySubmitted
    /\ Len(orders) <= 1

\* C1 witness: a tick with an open position and no ATR went through the entry
\* branch and ended without an order.
C1_Witness ==
    /\ Decided
    /\ pos_info # None
    /\ atr_15 = None
    /\ decision = "NO_SIGNAL"
    /\ orders = << >>

\* C2: for day_start_equity > 0 and equity >= 0, can_open_new_trade returns true
\* exactly when (day_start_equity - equity) / day_start_equity is strictly below
\* the drawdown limit; at a loss equal to the limit it returns false.
C2_CanOpenIffBelowLimit ==
    (/\ call.fn = "can_open_new_trade"
     /\ call.done
     /\ call.args.state.day_start_equity > 0
     /\ call.args.current_equity >= 0)
    => LET d == call.args.state.day_start_equity
           e == call.args.current_equity
       IN  /\ call.result.exc = "none"
           /\ call.result.ret
                <=> (d - e) * DAILY_DRAWDOWN_LIMIT_DEN < DAILY_DRAWDOWN_LIMIT_NUM * d
           /\ (d - e) * DAILY_DRAWDOWN_LIMIT_DEN = DAILY_DRAWDOWN_LIMIT_NUM * d
                => ~call.result.ret

\* C2 witness: a call at a loss exactly equal to the limit has returned false.
C2_Witness ==
    /\ call.fn = "can_open_new_trade"
    /\ call.done
    /\ call.args.state.day_start_equity = 10
    /\ call.args.current_equity = 9
    /\ call.result = [exc |-> "none", ret |-> FALSE]

\* C3 (as claimed): with day_start_equity <= 0, can_open_new_trade returns false
\* for every equity, as a normal return value and never by raising.
C3_NonPositiveBaselineReturnsFalse ==
    (/\ call.fn = "can_open_new_trade"
     /\ call.done
     /\ call.args.state.day_start_equity <= 0)
    => /\ call.result.exc = "none"
       /\ ~call.result.ret

\* C4: the risk gate is evaluated before the entry evaluation, and an entry order
\* is submitted in a tick only if can_open_new_trade returned true for the equity
\* observed in that tick, evaluate_strategy produced a Signal and the quantity is
\* greater than 0; with a Signal and a false gate no order is submitted.
C4_EntryOnlyThroughGate ==
    /\ pc = "decide" => allowed # None
    /\ signal # None => allowed # None
    /\ EntrySubmitted =>
         /\ allowed = {TRUE}
         /\ LET d == The(risk_state).day_start_equity
                e == The(equity)
            IN  d # 0 /\ LtFrac(d - e, d, DAILY_DRAWDOWN_LIMIT_NUM, DAILY_DRAWDOWN_LIMIT_DEN)
         /\ signal # None
         /\ \A i \in 1..Len(orders) :
              orders[i].quantity > 0 /\ orders[i].side = The(signal).side
    /\ (signal # None /\ allowed = {FALSE}) => orders = << >>

\* C4 witness: an entry order was submitted in a tick whose gate was true.
C4_Witness ==
    /\ Decided
    /\ decision = "ENTRY"
    /\ allowed = {TRUE}
    /\ signal # None
    /\ EntrySubmitted

\* C5: with an open position and an ATR, stop = entry - SLmult*ATR and
\* target = entry + TPmult*ATR for a long (mirrored for a short); the stop-loss is
\* checked first: a long exits via SL iff mark <= stop, otherwise via TP iff
\* mark >= target, a short exits via SL iff mark >= stop, otherwise via TP iff
\* mark <= target, otherwise HOLD; when both breaches hold the exit is an SL exit.
C5_StopLossBeforeTakeProfit ==
    (Decided /\ pos_info # None /\ atr_15 # None) =>
      LET p == The(pos_info)
          e == p.entry_price
          a == The(atr_15)
          m == The(mark_price)
          \* all four levels and the mark multiplied by the stop multiplier's denominator
          mm        == ATR_SL_MULTIPLIER_DEN * m
          longStop  == ATR_SL_MULTIPLIER_DEN * e - ATR_SL_MULTIPLIER_NUM * a
          longTgt   == ATR_SL_MULTIPLIER_DEN * e + ATR_SL_MULTIPLIER_DEN * ATR_TP_MULTIPLIER * a
          shortStop == ATR_SL_MULTIPLIER_DEN * e + ATR_SL_MULTIPLIER_NUM * a
          shortTgt  == ATR_SL_MULTIPLIER_DEN * e - ATR_SL_MULTIPLIER_DEN * ATR_TP_MULTIPLIER * a
      IN  IF p.side = "BUY"
          THEN /\ decision = "SL_LONG" <=> mm <= longStop
               /\ decision = "TP_LONG" <=> (~(mm <= longStop) /\ mm >= longTgt)
               /\ decision = "HOLD" <=> (~(mm <= longStop) /\ ~(mm >= longTgt))
          ELSE /\ decision = "SL_SHORT" <=> mm >= shortStop
               /\ decision = "TP_SHORT" <=> (~(mm >= shortStop) /\ mm <= shortTgt)
               /\ decision = "HOLD" <=> (~(mm >= shortStop) /\ ~(mm <= shortTgt))

\* C5 witness: a long whose stop and target are both breached (ATR 0, mark at the
\* entry price) was exited via SL.
C5_Witness ==
    /\ Decided
    /\ pos_info # None
    /\ atr_15 = {0}
    /\ The(pos_info).side = "BUY"
    /\ mark_price = {The(pos_info).entry_price}
    /\ decision = "SL_LONG"

\* C6: every exit decided by the position-management branch submits exactly one
\* market order, reduce-only, for the full absolute quantity of the observed
\* position, on the side opposite to the position; HOLD submits no order.
C6_ExitIsOneReduceOnlyOrder ==
    /\ (Decided /\ decision \in {"SL_LONG", "TP_LONG", "SL_SHORT", "TP_SHORT"}) =>
         /\ pos_info # None
         /\ The(pos_info).qty > 0
         /\ orders = <<[symbol |-> SYMBOL,
                        side |-> IF The(pos_info).side = "BUY" THEN "SELL" ELSE "BUY",
                        type |-> "MARKET",
                        quantity |-> The(pos_info).qty,
                        reduceOnly |-> TRUE]>>
    /\ (Decided /\ decision = "HOLD") => orders = << >>

\* C6 witness: a short was exited by one reduce-only BUY of its quantity.
C6_Witness ==
    /\ Decided
    /\ decision = "SL_SHORT"
    /\ The(pos_info).side = "SELL"
    /\ Len(orders) = 1
    /\ orders[1].side = "BUY"
    /\ orders[1].reduceOnly
    /\ orders[1].quantity = The(pos_info).qty

\* C7: maybe_reset_day returns the given RiskState (the same object, unchanged)
\* when the current UTC date equals state.day_start_date, otherwise a fresh
\* RiskState with the current date and the equity passed in; applying it again
\* with the same equity on the same date changes nothing; the input object is
\* never modified.
C7_MaybeResetDay ==
    (call.fn = "maybe_reset_day" /\ call.done) =>
      LET a   == call.args
          r   == call.result
          old == a.heap[a.state]
      IN  /\ a.clock = old.day_start_date => (r.ret = a.state /\ r.heap = a.heap)
          /\ a.clock # old.day_start_date =>
               /\ r.ret \notin DOMAIN a.heap
               /\ r.heap[r.ret] = [day_start_equity |-> a.current_equity,
                                   day_start_date |-> a.clock]
          /\ maybe_reset_day(r.heap, r.ret, a.current_equity, a.clock) = r
          /\ \A i \in DOMAIN a.heap : r.heap[i] = a.heap[i]

\* C7 witness: a call on a later date returned a fresh object and left the
\* caller's object as it was.
C7_Witness ==
    /\ call.fn = "maybe_reset_day"
    /\ call.done
    /\ call.args.clock # call.args.heap[call.args.state].day_start_date
    /\ call.result.ret = Len(call.args.heap) + 1
    /\ call.result.heap[call.args.state] = call.args.heap[call.args.state]
    /\ call.result.heap[call.result.ret].day_start_date = call.args.clock

\* C8 (as claimed): once a tick has seen the equity down from the day-start
\* equity by at least the drawdown limit, no entry order is submitted on any
\* later tick of the same UTC date.
C8_NoEntryAfterDrawdownHit == dd_hit => ~EntrySubmitted

\* C9 (as claimed): compute_position_size returns (wallet_balance * fraction) /
\* mark_price truncated to three decimals, so never more than the exact
\* quotient, and 0 when wallet_balance or mark_price is non-positive.
C9_SizeIsTruncatedQuotient ==
    (call.fn = "compute_position_size" /\ call.done) =>
      LET w == call.args.wallet_balance
          m == call.args.mark_price
      IN  IF w <= 0 \/ m <= 0
          THEN call.result = 0
          ELSE /\ call.result * TRADE_BALANCE_FRACTION_DEN * m
                    <= w * TRADE_BALANCE_FRACTION_NUM * QTY_SCALE
               /\ call.result = (w * TRADE_BALANCE_FRACTION_NUM * QTY_SCALE)
                                   \div (TRADE_BALANCE_FRACTION_DEN * m)

\* C10: when at least one of the three timeframes has fewer than 60 closed
\* candles (the trailing candle discarded), empty and one-candle series included,
\* evaluate_strategy returns no Signal with a non-empty explanation and does not
\* raise.
C10_ShortSeriesNoTrade ==
    (/\ call.fn = "evaluate_strategy"
     /\ call.done
     /\ \/ call.args.klines_15m.n <= MIN_CANDLES
        \/ call.args.klines_30m.n <= MIN_CANDLES
        \/ call.args.klines_1h.n <= MIN_CANDLES)
    => /\ call.result.exc = "none"
       /\ call.result.signal = None
       /\ Len(call.result.expl) > 0
       /\ \A i \in 1..Len(call.result.expl) : call.result.expl[i] # ""

\* C10 witness: the 30m series alone is short (one candle) under a 15m/1h
\* situation that would otherwise signal a trend long, and the call returned no
\* Signal.
C10_Witness ==
    /\ call.fn = "evaluate_strategy"
    /\ call.done
    /\ call.args.klines_15m = Series15(200, 0, 0, "trend_long")
    /\ call.args.klines_30m = Series30(1, 3, 2)
    /\ call.args.klines_1h = Series1h(200, 3, 2, {ADX_THRESHOLD_TREND + 1})
    /\ call.result.exc = "none"
    /\ call.result.signal = None

\* C11: an exception raised inside a tick is caught by the loop: once the loop
\* is entered main never ends, a tick that ended with an exception is followed
\* by the sleep and then by the start of the next tick, with the exception gone.
C11_FailedTickIsFollowedByNextTick ==
    /\ [][pc # "start" => pc' # "crashed"]_vars
    /\ [][(pc = "sleep" /\ exc # "none") => (pc' = "account" /\ exc' = "none")]_vars
    /\ (pc = "sleep" /\ exc # "none") ~> (pc = "account" /\ exc = "none")

\* C11 witness: a tick is about to start with a RiskState whose day_start_equity
\* of 0 was recorded at the roll to day 2. The tick that recorded it raised
\* ZeroDivisionError in can_open_new_trade, so this tick follows a failed one.
C11_Witness ==
    /\ pc = "account"
    /\ exc = "none"
    /\ risk_state = {RiskState(0, get_utc_date_str(2))}

\* C12 (as claimed): whenever a tick ends with an exception, no market order was
\* taken by the exchange during that tick.
C12_FailedTickSubmittedNoOrder ==
    (pc = "sleep" /\ exc # "none") => accepted = 0

\* C13: compute_pnl returns (exit - entry) * quantity for a long and
\* (entry - exit) * quantity for a short, with percentage pnl / (entry * quantity)
\* * 100; entry 100, exit 110 (long) or 90 (short), quantity 2 give 20 and 10
\* percent; with quantity <= 0 or entry <= 0 it returns (0, 0) and does not divide.
C13_ComputePnl ==
    (call.fn = "compute_pnl" /\ call.done) =>
      LET a == call.args
          r == call.result
      IN  /\ (a.qty > 0 /\ a.entry_price > 0) =>
                /\ a.side = "BUY" => r.pnl = (a.exit_price - a.entry_price) * a.qty
                /\ a.side = "SELL" => r.pnl = (a.entry_price - a.exit_price) * a.qty
                /\ r.pnl_pct.den > 0
                /\ r.pnl_pct.num * (a.entry_price * a.qty) = r.pnl * 100 * r.pnl_pct.den
          /\ (a.entry_price = 100 /\ a.qty = 2
               /\ \/ (a.side = "BUY" /\ a.exit_price = 110)
                  \/ (a.side = "SELL" /\ a.exit_price = 90)) =>
                /\ r.pnl = 20
                /\ r.pnl_pct.num = 10 * r.pnl_pct.den
          /\ (a.qty <= 0 \/ a.entry_price <= 0) =>
                /\ r.pnl = 0
                /\ r.pnl_pct.num = 0
                /\ ~r.divided

\* C13 witness: the short of the example (entry 100, exit 90, quantity 2) has
\* returned 20 and 10 percent.
C13_Witness ==
    /\ call.fn = "compute_pnl"
    /\ call.done
    /\ call.args = [entry_price |-> 100, exit_price |-> 90, qty |-> 2, side |-> "SELL"]
    /\ call.result.pnl = 20
    /\ call.result.pnl_pct = Frac(2000, 200)

\* C14 (as claimed): the ATR that gives a tick's stop-loss and take-profit levels
\* is the ATR of the 15m series without its most recent candle.
C14_AtrFromClosedCandlesOnly ==
    (Decided /\ InPositionBranch(pos_info, atr_15)) =>
        atr_15 = {The(kl).kl_15.atr_closed}

\* C15: an evaluation that classifies the 1h regime ends with exactly one of UP,
\* DOWN, RANGE: UP iff EMA50 > EMA100 and ADX is defined and strictly above the
\* threshold, DOWN iff EMA50 < EMA100 and ADX is defined and strictly above it,
\* RANGE otherwise (equal EMAs, ADX at or below the threshold, ADX undefined).
C15_RegimeIsUpDownOrRange ==
    (/\ call.fn = "evaluate_strategy"
     /\ call.done
     /\ call.result.big_trend # "unset")
    => LET h      == call.args.klines_1h
           strong == \E x \in h.adx : x > ADX_THRESHOLD_TREND
           regime == call.result.big_trend
       IN  /\ regime \in {"UP", "DOWN", "RANGE"}
           /\ regime = "UP" <=> (h.ema50 > h.ema100 /\ strong)
           /\ regime = "DOWN" <=> (h.ema50 < h.ema100 /\ strong)
           /\ regime = "RANGE" <=> (h.ema50 = h.ema100 \/ ~strong)

\* C15 witness: EMA50 above EMA100 with the ADX exactly at the threshold was
\* classified RANGE.
C15_Witness ==
    /\ call.fn = "evaluate_strategy"
    /\ call.done
    /\ call.args.klines_1h = Series1h(200, 3, 2, {ADX_THRESHOLD_TREND})
    /\ call.result.big_trend = "RANGE"

\* C16: an evaluation returns at most one Signal; a trend-following BUY only
\* when the 1h regime is UP and the 30m bias is UP, a trend-following SELL only
\* when both are DOWN, a range Signal only when the regime is RANGE; and no input
\* satisfies the conditions of two of the four entries at once.
C16_OneSignalBranchesExclusive ==
    (call.fn = "evaluate_strategy" /\ call.done) =>
      LET a      == call.args
          r      == call.result
          h      == a.klines_1h
          m      == a.klines_30m
          strong == \E x \in h.adx : x > ADX_THRESHOLD_TREND
          up     == h.ema50 > h.ema100 /\ strong
          down   == h.ema50 < h.ema100 /\ strong
      IN  /\ Cardinality(r.signal) <= 1
          /\ \A sg \in r.signal :
               /\ sg.reason \in {"Trend long", "Trend short",
                                 "Range long at lower Bollinger",
                                 "Range short at upper Bollinger"}
               /\ sg.reason = "Trend long" =>
                    sg.side = "BUY" /\ up /\ m.ema50 > m.ema100
               /\ sg.reason = "Trend short" =>
                    sg.side = "SELL" /\ down /\ m.ema50 < m.ema100
               /\ sg.reason \in {"Range long at lower Bollinger",
                                 "Range short at upper Bollinger"} =>
                    ~up /\ ~down
          /\ r.big_trend # "unset" =>
               LET c == EntryConditions(a.klines_15m, r.big_trend, r.mid_trend)
               IN  Cardinality({f \in DOMAIN c : c[f]}) <= 1

\* C16 witness: with an RSI pair that is both a cross up through 45 and a rebound
\* from oversold, a close at the lower band and above EMA50, and a RANGE regime,
\* the evaluation returned the range long.
C16_Witness ==
    /\ call.fn = "evaluate_strategy"
    /\ call.done
    /\ call.args.klines_15m.rsi_prev = {25}
    /\ call.args.klines_15m.rsi_last = {50}
    /\ call.args.klines_15m.macd_hist_prev < 0
    /\ call.args.klines_15m.close > call.args.klines_15m.ema50
    /\ call.args.klines_30m.ema50 > call.args.klines_30m.ema100
    /\ call.result.big_trend = "RANGE"
    /\ call.result.signal = {Signal("BUY", "Range long at lower Bollinger")}

C18_RangeEntries ==
    (/\ call.fn = "evaluate_strategy"
     /\ call.done
     /\ call.result.big_trend = "RANGE")
    => LET k      == call.args.klines_15m
           r      == call.result
           vol_ok == \E b \in k.vol_ma20 :
                       MIN_VOLUME_FACTOR_RANGE_DEN * k.vol_last
                         > MIN_VOLUME_FACTOR_RANGE_NUM * b
       IN  /\ (/\ \E b \in k.bb_lower : k.close <= b
               /\ \E p \in k.rsi_prev, l \in k.rsi_last : p < RSI_OVERSOLD /\ RSI_OVERSOLD <= l
               /\ vol_ok)
              => \E sg \in r.signal : sg.side = "BUY"
           /\ (/\ \E b \in k.bb_upper : k.close >= b
               /\ \E p \in k.rsi_prev, l \in k.rsi_last :
                    p > RSI_OVERBOUGHT /\ RSI_OVERBOUGHT >= l
               /\ vol_ok)
              => \E sg \in r.signal : sg.side = "SELL"

\* C19 (as claimed): the risk gate never keeps a tick from its stop-loss exit: a
\* tick in which no collaborator failed has queried the position and the market,
\* and if it found an open position, an ATR and the mark price at or beyond the
\* stop-loss level, it has submitted the reduce-only exit order, whatever the
\* RiskState is.
C19_StopLossNotBlockedByRiskGate ==
    (pc = "sleep" /\ exc # "Exception") =>
      /\ mark_price # None
      /\ InPositionBranch(pos_info, atr_15) =>
           LET p      == The(pos_info)
               m      == ATR_SL_MULTIPLIER_DEN * The(mark_price)
               e      == ATR_SL_MULTIPLIER_DEN * p.entry_price
               d      == ATR_SL_MULTIPLIER_NUM * The(atr_15)
               breach == IF p.side = "BUY" THEN m <= e - d ELSE m >= e + d
           IN  breach =>
                 /\ decision \in {"SL_LONG", "SL_SHORT"}
                 /\ accepted = 1
                 /\ orders = <<create_market_order(
                                 SYMBOL, IF p.side = "BUY" THEN "SELL" ELSE "BUY",
                                 p.qty, TRUE)>>

====
